---- MODULE Spec2Model ----
(***************************************************************************)
(* Session / purpose-token lifecycle and the auth middleware of            *)
(* express_starter_kit (services/token.service.ts, services/auth.service.ts*)
(* middlewares/auth.ts and the auth controller).                           *)
(*                                                                         *)
(* Time is counted in minutes: every Date.now() the code reads is a whole  *)
(* number of minutes, so 1000*60*60*24*30 ms is 60*24*30 minutes.          *)
(* A call of the prisma client is one atomic step of the store; the code    *)
(* that runs between two awaits is executed together with the store call   *)
(* that precedes it.                                                       *)
(***************************************************************************)
EXTENDS Integers, FiniteSets, Sequences, TLC

VARIABLES sessions, tokens, users, now, ticks, nextTok, faults, procs, last, consumed

vars == <<sessions, tokens, users, now, ticks, nextTok, faults, procs, last, consumed>>

-----------------------------------------------------------------------------
(* Bounds of the model *)

\* request slots served concurrently
NumProcs == 2
\* tokens generated in a run of Spec / of SpecSeq and SpecFaults / of SpecAuthz
MaxTokens == 1
MaxSeqTokens == 2
MaxAuthzTokens == 2
\* tokens generated in a run of SpecPurpose / of SpecConsume
MaxPurposeTokens == 2
MaxConsumeTokens == 1
MaxRouteTokens == 2
\* steps of the clock
MaxTicks == 2
\* store calls that fail in a run of SpecFaults
MaxFaults == 1

-----------------------------------------------------------------------------
(* Program constants *)

DAYS_30 == 60 * 24 * 30
DAYS_15 == 60 * 24 * 15
MINUTES_10 == 10
UNAUTHORIZED == 401
FORBIDDEN == 403
NOT_FOUND == 404
NO_CONTENT == 204
OK == 200
CREATED == 201
BAD_REQUEST == 400

\* digest space of the model's sha256: DigestBase .. DigestBase + DigestSpace - 1
DigestBase == 100
DigestSpace == 11

-----------------------------------------------------------------------------
(* Values *)

Procs == 1 .. NumProcs

\* Raw tokens are numbers: EmptyToken is the empty string, 1, 2, .. are the
\* tokens generateSessionToken hands out, BogusToken is a string that was
\* never generated ("randomToken").
EmptyToken == 0
BogusToken == 9
NoHeader == 0 - 1
RawTokens == 0 .. BogusToken

UserIds == {"userOne", "admin"}
NoParam == "undefined"

\* generateUserID: the id of the user a registration creates
NewUserId == "userNew"

\* utils/encryption encryptPassword: a one-way function of the password
encryptPassword(password) == <<"bcrypt", password>>

\* utils/encryption isPasswordMatch(password, userPassword): bcrypt.compare
isPasswordMatch(password, userPassword) == userPassword = encryptPassword(password)
Roles == {"USER", "ADMIN"}
Rights == {"getUsers", "manageUsers", "anyRight"}

Null == {}
Some(x) == {x}

\* sha256 + encodeHexLowerCase: deterministic, injective on the tokens of the
\* model, and its digests are not themselves raw tokens.
sha256Hex(token) == DigestBase + ((token * 5 + 3) % DigestSpace)

\* new TextEncoder().encode(undefined) encodes the empty string
encode(sessionId) == IF sessionId = NoHeader THEN EmptyToken ELSE sessionId

roleRights == [r \in Roles |-> IF r = "ADMIN" THEN {"getUsers", "manageUsers"} ELSE {}]

ApiError(statusCode, message) == [called |-> TRUE, statusCode |-> statusCode, message |-> message]
NextNotCalled == [called |-> FALSE, statusCode |-> 0, message |-> ""]
NextNoArgs == [called |-> TRUE, statusCode |-> 0, message |-> ""]

\* catchAsync: .catch((err) => next(err)) with an error that is no ApiError
PlainError(message) == [called |-> TRUE, statusCode |-> 0, message |-> message]

UserOf(u) == [id |-> u, role |-> users[u].role]

\* A request: what it was called with, the locals it holds across awaits,
\* and its outcome (the argument next was called with, the error thrown by
\* the service, the status of the response the controller sent, the token
\* values it wrote to the console).
Idle == [pc |-> "idle", op |-> "none", tok |-> NoHeader, rights |-> {},
         param |-> NoParam, found |-> "none", session |-> Null, user |-> Null,
         reqUser |-> Null, next |-> NextNotCalled, thrown |-> "none",
         email |-> "", password |-> "", tokenData |-> Null, res |-> 0,
         logged |-> {}]

-----------------------------------------------------------------------------
(* The store (prisma client) *)

\* outcomes of one store call: it is carried out, or the store fails
StoreUp == IF faults < MaxFaults THEN {TRUE, FALSE} ELSE {TRUE}

FaultsAfter(up) == IF up THEN faults ELSE faults + 1

\* mutant: the lookup also returns a purpose token stored under the id
sessionFindUnique_orToken(id) ==
  {s \in sessions : s.id = id} \cup
  {[id |-> k.token, userId |-> k.userId, expiresAt |-> k.expires] :
     k \in {x \in tokens : x.token = id}}

\* prisma.session.findUnique({where: {id}, include: {user: true}})
sessionFindUnique(id) == {s \in sessions : s.id = id}

\* prisma.session.delete / update raise P2025 when no row has the id
sessionExists(id) == \E s \in sessions : s.id = id

\* mutant: the delete matches no row and removes nothing
sessionDelete_none(id) == sessions

\* mutant: the delete removes every session of the user of the row
sessionDelete_ofUser(id) ==
  {s \in sessions : \A x \in sessions : x.id = id => s.userId # x.userId}

sessionDelete(id) == {s \in sessions : s.id # id}

\* mutant: the update writes nothing
sessionUpdate_noWrite(id, expiresAt) == sessions

\* mutant: the update has no where clause and writes every row
sessionUpdate_allRows(id, expiresAt) ==
  {[id |-> s.id, userId |-> s.userId, expiresAt |-> expiresAt] : s \in sessions}

sessionUpdate(id, expiresAt) ==
  {s \in sessions : s.id # id} \cup
  {[id |-> s.id, userId |-> s.userId, expiresAt |-> expiresAt] : s \in {x \in sessions : x.id = id}}

\* mutant: the insert never reports a conflict
sessionConflict_never(session) == FALSE

\* prisma.session.create raises P2002 when a row has the id already
sessionConflict(session) == sessionExists(session.id)

sessionCreate(session) == sessions \cup {session}

\* prisma.token.findFirst({where: {token, type, blacklisted}})
tokenFindFirst(hashedToken, type, blacklisted) ==
  {k \in tokens : k.token = hashedToken /\ k.type = type /\ k.blacklisted = blacklisted}

\* mutant: deleteMany removes nothing
tokenDeleteMany_none(userId, type) == tokens

\* mutant: deleteMany filters on the user only
tokenDeleteMany_anyType(userId, type) == {k \in tokens : k.userId # userId}

\* prisma.token.deleteMany({where: {userId, type}})
tokenDeleteMany(userId, type) ==
  {k \in tokens : ~(k.userId = userId /\ k.type = type)}

-----------------------------------------------------------------------------
Init ==
  /\ sessions = {}
  /\ tokens = {}
  /\ users = [u \in UserIds |->
               [role |-> IF u = "admin" THEN "ADMIN" ELSE "USER",
                email |-> IF u = "admin" THEN "admin@x" ELSE "one@x",
                password |-> encryptPassword("password1"),
                isEmailVerified |-> FALSE]]
  /\ now = 0
  /\ ticks = 0
  /\ nextTok = 1
  /\ faults = 0
  /\ procs = [p \in Procs |-> Idle]
  /\ last = Idle
  /\ consumed = {}

-----------------------------------------------------------------------------
(* token.service.ts *)

\* generateSessionToken: 20 random bytes, base32; a token never handed out before
generateSessionToken == nextTok

\* expiresAt ?? new Date(Date.now() + 1000 * 60 * 60 * 24 * 30)
defaultExpiresAt(t) == t + DAYS_30

\* mutant: the raw token is stored as the id
newSession_rawId(token, userId, expiresAt) ==
  [id |-> token, userId |-> userId, expiresAt |-> expiresAt]

\* the session object createSession builds and inserts
newSession(token, userId, expiresAt) ==
  [id |-> sha256Hex(token), userId |-> userId, expiresAt |-> expiresAt]

\* mutant: > instead of >= in the expiry check
isExpired_strict(t, expiresAt) == t > expiresAt

\* mutant: the comparison of the expiry check is turned round
isExpired_flipped(t, expiresAt) == t <= expiresAt

\* Date.now() >= session.expiresAt.getTime()
isExpired(t, expiresAt) == t >= expiresAt

\* mutant: > instead of >= in the renewal check
inRenewalWindow_strict(t, expiresAt) == t > expiresAt - DAYS_15

\* Date.now() >= session.expiresAt.getTime() - 1000 * 60 * 60 * 24 * 15
inRenewalWindow(t, expiresAt) == t >= expiresAt - DAYS_15

\* mutant: the renewal extends by 15 days only
renewedExpiresAt_short(t) == t + DAYS_15

\* session.expiresAt = new Date(Date.now() + 1000 * 60 * 60 * 24 * 30)
renewedExpiresAt(t) == t + DAYS_30

\* what validateSessionToken does with the row findUnique returned
classify(result, t) ==
  IF result = Null THEN "null"
  ELSE LET s == CHOOSE x \in result : TRUE IN
       IF isExpired(t, s.expiresAt) THEN "expired"
       ELSE IF inRenewalWindow(t, s.expiresAt) THEN "renew"
       ELSE "valid"

\* mutant: saveToken stores the raw token
newToken_raw(token, userId, expires, type, blacklisted) ==
  [token |-> token, userId |-> userId, expires |-> expires,
   type |-> type, blacklisted |-> blacklisted]

\* the hashed record saveToken inserts
newToken(token, userId, expires, type, blacklisted) ==
  [token |-> sha256Hex(token), userId |-> userId, expires |-> expires,
   type |-> type, blacklisted |-> blacklisted]

\* mutant: the blacklisted flag is left out of the query
verifyToken_anyBlacklisted(token, type, blacklisted) ==
  {k \in tokens : k.token = sha256Hex(token) /\ k.type = type}

\* mutant: the lookup does not filter on the type
verifyToken_anyType(token, type, blacklisted) ==
  {k \in tokens : k.token = sha256Hex(token) /\ k.blacklisted = blacklisted}

\* mutant: records whose expires has passed are not returned
verifyToken_checksExpiry(token, type, blacklisted) ==
  {k \in tokenFindFirst(sha256Hex(token), type, blacklisted) : k.expires > now}

\* verifyToken(token, type, blacklisted = false): the record findFirst
\* returns for the digest of the token; Null stands for 'Token not found'
verifyToken(token, type, blacklisted) ==
  tokenFindFirst(sha256Hex(token), type, blacklisted)

\* the expires of a record against the clock (the code never compares them)
expiryOf(tokenData, t) ==
  IF tokenData = Null THEN "null"
  ELSE IF \E k \in tokenData : k.expires < t THEN "expired" ELSE "valid"

-----------------------------------------------------------------------------
(* user.service.ts *)

\* userService.getUserById(id)
getUserById(id) == IF id \in DOMAIN users THEN Some(id) ELSE Null

\* userService.updateUserById(id, {password})
updatePassword(id, newPassword) ==
  [users EXCEPT ![id].password = encryptPassword(newPassword)]

\* userService.createUser(name, email, password, role): the row it inserts
createUser(email, password, role) ==
  [u \in DOMAIN users \cup {NewUserId} |->
     IF u = NewUserId
     THEN [role |-> role, email |-> email, password |-> encryptPassword(password),
           isEmailVerified |-> FALSE]
     ELSE users[u]]

\* userService.updateUserById(id, {isEmailVerified: true})
updateEmailVerified(id) == [users EXCEPT ![id].isEmailVerified = TRUE]

-----------------------------------------------------------------------------
(* services/auth.service.ts *)

\* mutant: the password is not compared
credentialsOk_userOnly(user, password) == user # Null

\* loginUserWithEmailAndPassword line 31, negated:
\* user && (await isPasswordMatch(password, user.password))
credentialsOk(user, password) ==
  user # Null /\ \A u \in user : isPasswordMatch(password, users[u].password)

\* mutant: the error caught is thrown on as it is
resetPasswordCatch_rethrow(pr, error) ==
  [pr EXCEPT !.pc = "done", !.thrown = error, !.next = PlainError(error)]

\* resetPassword, catch (error): logger.error(error), then
\* throw new ApiError(httpStatus.UNAUTHORIZED, "Password reset failed"),
\* which catchAsync passes to next
resetPasswordCatch(pr, error) ==
  [pr EXCEPT !.pc = "done", !.thrown = error,
             !.next = ApiError(UNAUTHORIZED, "Password reset failed")]

\* mutant: the error caught is thrown on as it is
verifyEmailCatch_rethrow(pr, error) ==
  [pr EXCEPT !.pc = "done", !.thrown = error, !.next = PlainError(error)]

\* verifyEmail, catch (error):
\* throw new ApiError(httpStatus.UNAUTHORIZED, "Email verification failed")
verifyEmailCatch(pr, error) ==
  [pr EXCEPT !.pc = "done", !.thrown = error,
             !.next = ApiError(UNAUTHORIZED, "Email verification failed")]

-----------------------------------------------------------------------------
(* middlewares/auth.ts *)

\* roleRights.get(user.role) ?? []
userRightsOf(role) == IF role \in DOMAIN roleRights THEN roleRights[role] ELSE {}

\* mutant: some instead of every
hasRequiredRights_some(requiredRights, userRights) ==
  \E requiredRight \in requiredRights : requiredRight \in userRights

\* requiredRights.every((requiredRight) => userRights.includes(requiredRight))
hasRequiredRights(requiredRights, userRights) ==
  \A requiredRight \in requiredRights : requiredRight \in userRights

\* lines 23-31: TRUE when the request is rejected with Forbidden
isForbidden(user, requiredRights, param) ==
  /\ requiredRights # {}
  /\ ~hasRequiredRights(requiredRights, userRightsOf(user.role))
  /\ param # user.id

\* mutant: req.user is not set
authSettle_noAttach(pr, session, user) ==
  IF session = Null
  THEN [pr EXCEPT !.pc = "done", !.session = Null, !.user = Null,
                  !.next = ApiError(UNAUTHORIZED, "Please authenticate")]
  ELSE LET u == CHOOSE x \in user : TRUE IN
       [pr EXCEPT !.pc = "done", !.session = session, !.user = user,
                  !.next = IF isForbidden(u, pr.rights, pr.param)
                           THEN ApiError(FORBIDDEN, "Forbidden")
                           ELSE NextNoArgs]

\* mutant: an expired session is reported with a message of its own
authSettle_expiredMessage(pr, session, user) ==
  IF session = Null
  THEN [pr EXCEPT !.pc = "done", !.session = Null, !.user = Null,
                  !.next = IF pr.found = "expired"
                           THEN ApiError(UNAUTHORIZED, "Session expired")
                           ELSE ApiError(UNAUTHORIZED, "Please authenticate")]
  ELSE LET u == CHOOSE x \in user : TRUE IN
       [pr EXCEPT !.pc = "done", !.session = session, !.user = user,
                  !.reqUser = user,
                  !.next = IF isForbidden(u, pr.rights, pr.param)
                           THEN ApiError(FORBIDDEN, "Forbidden")
                           ELSE NextNoArgs]

\* lines 16-32 followed by .then(() => next()).catch((err) => next(err)):
\* the part of the middleware that runs once validateSessionToken returned
authSettle(pr, session, user) ==
  IF session = Null
  THEN [pr EXCEPT !.pc = "done", !.session = Null, !.user = Null,
                  !.next = ApiError(UNAUTHORIZED, "Please authenticate")]
  ELSE LET u == CHOOSE x \in user : TRUE IN
       [pr EXCEPT !.pc = "done", !.session = session, !.user = user,
                  !.reqUser = user,
                  !.next = IF isForbidden(u, pr.rights, pr.param)
                           THEN ApiError(FORBIDDEN, "Forbidden")
                           ELSE NextNoArgs]

\* validateSessionToken rejected: the await inside the promise executor
\* throws, neither resolve nor reject is called, next is never called
authThrown(pr, error) ==
  [pr EXCEPT !.pc = "pending", !.thrown = error, !.session = Null, !.user = Null]

-----------------------------------------------------------------------------
(* Actions *)

\* last is the request that completed in the latest step, Idle when that
\* step completed none.
\* The request in slot p ended with outcome pr and the slot is free again.
Complete(p, pr) ==
  /\ procs' = [procs EXCEPT ![p] = Idle]
  /\ last' = pr

\* The request in slot p goes on (or hangs) as pr.
Continue(p, pr) ==
  /\ procs' = [procs EXCEPT ![p] = pr]
  /\ last' = Idle

\* Settled requests complete, requests whose promise never settles hang.
Proceed(p, pr) == IF pr.pc = "done" THEN Complete(p, pr) ELSE Continue(p, pr)

\* generateSessionToken + createSession(token, userId, expiresAt?)
CreateSession(p, userId, custom, expiresAt, up) ==
  /\ procs[p].pc = "idle"
  /\ LET token == generateSessionToken
         session == newSession(token, userId,
                      IF custom THEN expiresAt ELSE defaultExpiresAt(now))
         pr == [Idle EXCEPT !.pc = "done", !.op = "createSession", !.tok = token,
                            !.param = userId]
     IN /\ nextTok' = nextTok + 1
        /\ faults' = FaultsAfter(up)
        /\ IF ~up
           THEN /\ Complete(p, [pr EXCEPT !.thrown = "StoreError"])
                /\ UNCHANGED sessions
           ELSE IF sessionConflict(session)
           THEN /\ Complete(p, [pr EXCEPT !.thrown = "P2002"])
                /\ UNCHANGED sessions
           ELSE /\ sessions' = sessionCreate(session)
                /\ Complete(p, [pr EXCEPT !.session = Some(session)])
  /\ UNCHANGED <<tokens, users, now, ticks, consumed>>

\* auth(...requiredRights)(req, res, next) up to the end of the first await
\* of validateSessionToken (findUnique) and the code that follows it
AuthFind(p, header, requiredRights, param, up) ==
  /\ procs[p].pc = "idle"
  /\ LET sessionId == sha256Hex(encode(header))
         result == sessionFindUnique(sessionId)
         found == classify(result, now)
         pr == [Idle EXCEPT !.op = "auth", !.tok = header, !.rights = requiredRights,
                            !.param = param, !.logged = {sessionId}]
     IN /\ faults' = FaultsAfter(up)
        /\ IF ~up
           THEN Proceed(p, authThrown(pr, "StoreError"))
           ELSE LET s == CHOOSE x \in result : TRUE
                    user == Some(UserOf(s.userId))
                    q == [pr EXCEPT !.found = found]
                IN CASE found = "null" -> Proceed(p, authSettle(q, Null, Null))
                     [] found = "expired" -> Proceed(p, [q EXCEPT !.pc = "delete"])
                     [] found = "renew" ->
                          Proceed(p, [q EXCEPT !.pc = "update", !.user = user,
                                      !.session = Some([s EXCEPT !.expiresAt = renewedExpiresAt(now)])])
                     [] found = "valid" -> Proceed(p, authSettle(q, Some(s), user))
  /\ UNCHANGED <<sessions, tokens, users, now, ticks, nextTok, consumed>>

\* validateSessionToken line 82: prisma.session.delete of the expired row
ValidateDelete(p, up) ==
  /\ procs[p].pc = "delete"
  /\ LET sessionId == sha256Hex(encode(procs[p].tok)) IN
     /\ faults' = FaultsAfter(up)
     /\ IF ~up
        THEN /\ Proceed(p, authThrown(procs[p], "StoreError"))
             /\ UNCHANGED sessions
        ELSE IF ~sessionExists(sessionId)
        THEN /\ Proceed(p, authThrown(procs[p], "P2025"))
             /\ UNCHANGED sessions
        ELSE /\ sessions' = sessionDelete(sessionId)
             /\ Proceed(p, authSettle(procs[p], Null, Null))
  /\ UNCHANGED <<tokens, users, now, ticks, nextTok, consumed>>

\* mutant: the update inserts the row when it is gone (upsert)
ValidateUpdate_upsert(p, up) ==
  /\ procs[p].pc = "update"
  /\ LET session == CHOOSE x \in procs[p].session : TRUE IN
     /\ faults' = FaultsAfter(up)
     /\ IF ~up
        THEN /\ Proceed(p, authThrown(procs[p], "StoreError"))
             /\ UNCHANGED sessions
        ELSE /\ sessions' = {x \in sessions : x.id # session.id} \cup {session}
             /\ Proceed(p, authSettle(procs[p], procs[p].session, procs[p].user))
  /\ UNCHANGED <<tokens, users, now, ticks, nextTok, consumed>>

\* validateSessionToken lines 87-94: prisma.session.update of expiresAt
ValidateUpdate(p, up) ==
  /\ procs[p].pc = "update"
  /\ LET session == CHOOSE x \in procs[p].session : TRUE IN
     /\ faults' = FaultsAfter(up)
     /\ IF ~up
        THEN /\ Proceed(p, authThrown(procs[p], "StoreError"))
             /\ UNCHANGED sessions
        ELSE IF ~sessionExists(session.id)
        THEN /\ Proceed(p, authThrown(procs[p], "P2025"))
             /\ UNCHANGED sessions
        ELSE /\ sessions' = sessionUpdate(session.id, session.expiresAt)
             /\ Proceed(p, authSettle(procs[p], procs[p].session, procs[p].user))
  /\ UNCHANGED <<tokens, users, now, ticks, nextTok, consumed>>

\* authController.logout -> authService.logout -> invalidateSession(token)
Logout(p, sessionToken, up) ==
  /\ procs[p].pc = "idle"
  /\ LET sessionId == sha256Hex(encode(sessionToken))
         pr == [Idle EXCEPT !.pc = "done", !.op = "logout", !.tok = sessionToken]
     IN /\ faults' = FaultsAfter(up)
        /\ IF ~up
           THEN /\ Complete(p, [pr EXCEPT !.thrown = "StoreError",
                                           !.next = PlainError("StoreError")])
                /\ UNCHANGED sessions
           ELSE IF ~sessionExists(sessionId)
           THEN /\ Complete(p, [pr EXCEPT !.thrown = "P2025",
                                           !.next = PlainError("P2025")])
                /\ UNCHANGED sessions
           ELSE /\ sessions' = sessionDelete(sessionId)
                /\ Complete(p, [pr EXCEPT !.res = NO_CONTENT])
  /\ UNCHANGED <<tokens, users, now, ticks, nextTok, consumed>>

\* userService.getUserByEmail(email)
getUserByEmail(email) == {u \in DOMAIN users : users[u].email = email}

\* mutant: the token is saved before the user is looked up
ForgotPassword_saveFirst(p, email, up) ==
  /\ procs[p].pc = "idle"
  /\ LET user == getUserByEmail(email)
         resetPasswordToken == generateSessionToken
         u == IF user = Null THEN NoParam ELSE CHOOSE x \in user : TRUE
         pr == [Idle EXCEPT !.pc = "done", !.op = "forgotPassword", !.email = email]
     IN /\ faults' = FaultsAfter(up)
        /\ nextTok' = nextTok + 1
        /\ tokens' = tokens \cup
             {newToken(resetPasswordToken, u, now + MINUTES_10, "RESET_PASSWORD", FALSE)}
        /\ IF user = Null
           THEN Complete(p, [pr EXCEPT !.thrown = "NotFound",
                                       !.next = ApiError(NOT_FOUND, "No users found with this email")])
           ELSE Complete(p, [pr EXCEPT !.tok = resetPasswordToken, !.param = u,
                                       !.res = NO_CONTENT])
  /\ UNCHANGED <<sessions, users, now, ticks, consumed>>

\* authController.forgotPassword -> generateResetPasswordToken(email):
\* getUserByEmail, generateSessionToken, saveToken(.., RESET_PASSWORD, false)
ForgotPassword(p, email, up) ==
  /\ procs[p].pc = "idle"
  /\ LET user == getUserByEmail(email)
         pr == [Idle EXCEPT !.pc = "done", !.op = "forgotPassword", !.email = email]
     IN /\ faults' = FaultsAfter(up)
        /\ IF ~up
           THEN /\ Complete(p, [pr EXCEPT !.thrown = "StoreError",
                                           !.next = PlainError("StoreError")])
                /\ UNCHANGED <<tokens, nextTok>>
           ELSE IF user = Null
           THEN /\ Complete(p, [pr EXCEPT !.thrown = "NotFound",
                                           !.next = ApiError(NOT_FOUND, "No users found with this email")])
                /\ UNCHANGED <<tokens, nextTok>>
           ELSE LET u == CHOOSE x \in user : TRUE
                    resetPasswordToken == generateSessionToken
                IN /\ nextTok' = nextTok + 1
                   /\ tokens' = tokens \cup
                        {newToken(resetPasswordToken, u, now + MINUTES_10, "RESET_PASSWORD", FALSE)}
                   /\ Complete(p, [pr EXCEPT !.tok = resetPasswordToken, !.param = u,
                                              !.res = NO_CONTENT])
  /\ UNCHANGED <<sessions, users, now, ticks, consumed>>

\* authController.sendVerificationEmail -> generateVerifyEmailToken(req.user):
\* generateSessionToken, saveToken(.., VERIFY_EMAIL)
SendVerificationEmail(p, userId, up) ==
  /\ procs[p].pc = "idle"
  /\ LET verifyEmailToken == generateSessionToken
         pr == [Idle EXCEPT !.pc = "done", !.op = "sendVerificationEmail",
                            !.tok = verifyEmailToken, !.param = userId]
     IN /\ nextTok' = nextTok + 1
        /\ faults' = FaultsAfter(up)
        /\ IF ~up
           THEN /\ Complete(p, [pr EXCEPT !.thrown = "StoreError",
                                           !.next = PlainError("StoreError")])
                /\ UNCHANGED tokens
           ELSE /\ tokens' = tokens \cup
                     {newToken(verifyEmailToken, userId, now + MINUTES_10, "VERIFY_EMAIL", FALSE)}
                /\ Complete(p, [pr EXCEPT !.res = NO_CONTENT])
  /\ UNCHANGED <<sessions, users, now, ticks, consumed>>

\* createSession(token, userId) called with a token of the caller's choice
CreateSessionWith(p, token, userId, up) ==
  /\ procs[p].pc = "idle"
  /\ LET session == newSession(token, userId, defaultExpiresAt(now))
         pr == [Idle EXCEPT !.pc = "done", !.op = "createSession", !.tok = token,
                            !.param = userId]
     IN /\ faults' = FaultsAfter(up)
        /\ IF ~up
           THEN /\ Complete(p, [pr EXCEPT !.thrown = "StoreError"])
                /\ UNCHANGED sessions
           ELSE IF sessionConflict(session)
           THEN /\ Complete(p, [pr EXCEPT !.thrown = "P2002"])
                /\ UNCHANGED sessions
           ELSE /\ sessions' = sessionCreate(session)
                /\ Complete(p, [pr EXCEPT !.session = Some(session)])
  /\ UNCHANGED <<tokens, users, now, ticks, nextTok, consumed>>

\* generateSessionToken + saveToken(token, userId, expires, type, blacklisted)
SaveToken(p, userId, expires, type, blacklisted, up) ==
  /\ procs[p].pc = "idle"
  /\ LET token == generateSessionToken
         pr == [Idle EXCEPT !.pc = "done", !.op = "saveToken", !.tok = token,
                            !.param = userId]
     IN /\ nextTok' = nextTok + 1
        /\ faults' = FaultsAfter(up)
        /\ IF ~up
           THEN /\ Complete(p, [pr EXCEPT !.thrown = "StoreError"])
                /\ UNCHANGED tokens
           ELSE /\ tokens' = tokens \cup {newToken(token, userId, expires, type, blacklisted)}
                /\ Complete(p, [pr EXCEPT !.tokenData =
                                  Some(newToken(token, userId, expires, type, blacklisted))])
  /\ UNCHANGED <<sessions, users, now, ticks, consumed>>

\* authController.resetPassword -> authService.resetPassword(token, password)
\* up to the end of verifyToken (findFirst)
ResetPassword(p, resetPasswordToken, up) ==
  /\ procs[p].pc = "idle"
  /\ LET resetPasswordTokenData == verifyToken(resetPasswordToken, "RESET_PASSWORD", FALSE)
         pr == [Idle EXCEPT !.op = "resetPassword", !.tok = resetPasswordToken,
                            !.logged = {resetPasswordToken, sha256Hex(resetPasswordToken)}]
     IN /\ faults' = FaultsAfter(up)
        /\ IF ~up
           THEN Proceed(p, resetPasswordCatch(pr, "StoreError"))
           ELSE IF resetPasswordTokenData = Null
           THEN Proceed(p, resetPasswordCatch([pr EXCEPT !.found = "null"], "Token not found"))
           ELSE Proceed(p, [pr EXCEPT !.pc = "rp_getUser",
                                      !.found = expiryOf(resetPasswordTokenData, now),
                                      !.tokenData = resetPasswordTokenData])
  /\ UNCHANGED <<sessions, tokens, users, now, ticks, nextTok, consumed>>

\* resetPassword line 61-64: getUserById(resetPasswordTokenData.userId)
ResetGetUser(p, up) ==
  /\ procs[p].pc = "rp_getUser"
  /\ LET tokenData == CHOOSE k \in procs[p].tokenData : TRUE
         user == getUserById(tokenData.userId)
     IN /\ faults' = FaultsAfter(up)
        /\ IF ~up
           THEN Proceed(p, resetPasswordCatch(procs[p], "StoreError"))
           ELSE IF user = Null
           THEN Proceed(p, resetPasswordCatch(procs[p], "Error"))
           ELSE Proceed(p, [procs[p] EXCEPT !.pc = "rp_update", !.param = tokenData.userId])
  /\ UNCHANGED <<sessions, tokens, users, now, ticks, nextTok, consumed>>

\* mutant: the password update also ends the sessions of the user
ResetUpdateUser_expireSessions(p, up) ==
  /\ procs[p].pc = "rp_update"
  /\ LET id == procs[p].param IN
     /\ faults' = FaultsAfter(up)
     /\ IF ~up \/ getUserById(id) = Null
        THEN /\ Proceed(p, resetPasswordCatch(procs[p], "StoreError"))
             /\ UNCHANGED <<users, sessions>>
        ELSE /\ users' = updatePassword(id, "password@123")
             /\ sessions' = {IF s.userId = id THEN [s EXCEPT !.expiresAt = now] ELSE s :
                              s \in sessions}
             /\ Proceed(p, [procs[p] EXCEPT !.pc = "rp_deleteMany"])
  /\ UNCHANGED <<tokens, now, ticks, nextTok, consumed>>

\* resetPassword line 65: updateUserById(user.id, {password: newPassword})
ResetUpdateUser(p, up) ==
  /\ procs[p].pc = "rp_update"
  /\ LET id == procs[p].param IN
     /\ faults' = FaultsAfter(up)
     /\ IF ~up
        THEN /\ Proceed(p, resetPasswordCatch(procs[p], "StoreError"))
             /\ UNCHANGED users
        ELSE IF getUserById(id) = Null
        THEN /\ Proceed(p, resetPasswordCatch(procs[p], "User not found"))
             /\ UNCHANGED users
        ELSE /\ users' = updatePassword(id, "password@123")
             /\ Proceed(p, [procs[p] EXCEPT !.pc = "rp_deleteMany"])
  /\ UNCHANGED <<sessions, tokens, now, ticks, nextTok, consumed>>

\* mutant: the reset also removes the sessions of the user
ResetDeleteMany_dropSessions(p, up) ==
  /\ procs[p].pc = "rp_deleteMany"
  /\ faults' = FaultsAfter(up)
  /\ IF ~up
     THEN /\ Proceed(p, resetPasswordCatch(procs[p], "StoreError"))
          /\ UNCHANGED <<tokens, consumed, sessions>>
     ELSE /\ tokens' = tokenDeleteMany(procs[p].param, "RESET_PASSWORD")
          /\ sessions' = {s \in sessions : s.userId # procs[p].param}
          /\ consumed' = consumed \cup {procs[p].tok}
          /\ Proceed(p, [procs[p] EXCEPT !.pc = "done", !.res = NO_CONTENT])
  /\ UNCHANGED <<users, now, ticks, nextTok>>

\* resetPassword lines 66-68: deleteMany of the user's RESET_PASSWORD tokens,
\* then the controller sends 204
ResetDeleteMany(p, up) ==
  /\ procs[p].pc = "rp_deleteMany"
  /\ faults' = FaultsAfter(up)
  /\ IF ~up
     THEN /\ Proceed(p, resetPasswordCatch(procs[p], "StoreError"))
          /\ UNCHANGED <<tokens, consumed>>
     ELSE /\ tokens' = tokenDeleteMany(procs[p].param, "RESET_PASSWORD")
          /\ consumed' = consumed \cup {procs[p].tok}
          /\ Proceed(p, [procs[p] EXCEPT !.pc = "done", !.res = NO_CONTENT])
  /\ UNCHANGED <<sessions, users, now, ticks, nextTok>>

\* authController.verifyEmail -> authService.verifyEmail(token) up to the end
\* of verifyToken (findFirst)
VerifyEmail(p, verifyEmailToken, up) ==
  /\ procs[p].pc = "idle"
  /\ LET verifyEmailTokenData == verifyToken(verifyEmailToken, "VERIFY_EMAIL", FALSE)
         pr == [Idle EXCEPT !.op = "verifyEmail", !.tok = verifyEmailToken,
                            !.logged = {verifyEmailToken, sha256Hex(verifyEmailToken)}]
     IN /\ faults' = FaultsAfter(up)
        /\ IF ~up
           THEN Proceed(p, verifyEmailCatch(pr, "StoreError"))
           ELSE IF verifyEmailTokenData = Null
           THEN Proceed(p, verifyEmailCatch([pr EXCEPT !.found = "null"], "Token not found"))
           ELSE LET tokenData == CHOOSE k \in verifyEmailTokenData : TRUE IN
                Proceed(p, [pr EXCEPT !.pc = "ve_deleteMany",
                                      !.found = expiryOf(verifyEmailTokenData, now),
                                      !.tokenData = verifyEmailTokenData,
                                      !.param = tokenData.userId])
  /\ UNCHANGED <<sessions, tokens, users, now, ticks, nextTok, consumed>>

\* mutant: the user is marked verified before the tokens are deleted
VerifyDeleteMany_updateFirst(p, up) ==
  /\ procs[p].pc = "ve_deleteMany"
  /\ faults' = FaultsAfter(up)
  /\ IF ~up \/ getUserById(procs[p].param) = Null
     THEN /\ Proceed(p, verifyEmailCatch(procs[p], "StoreError"))
          /\ UNCHANGED users
     ELSE /\ users' = updateEmailVerified(procs[p].param)
          /\ Proceed(p, [procs[p] EXCEPT !.pc = "ve_update"])
  /\ UNCHANGED <<sessions, tokens, now, ticks, nextTok, consumed>>

\* verifyEmail lines 86-91: deleteMany of the user's VERIFY_EMAIL tokens
VerifyDeleteMany(p, up) ==
  /\ procs[p].pc = "ve_deleteMany"
  /\ faults' = FaultsAfter(up)
  /\ IF ~up
     THEN /\ Proceed(p, verifyEmailCatch(procs[p], "StoreError"))
          /\ UNCHANGED tokens
     ELSE /\ tokens' = tokenDeleteMany(procs[p].param, "VERIFY_EMAIL")
          /\ Proceed(p, [procs[p] EXCEPT !.pc = "ve_update"])
  /\ UNCHANGED <<sessions, users, now, ticks, nextTok, consumed>>

\* verifyEmail lines 92-94: updateUserById(userId, {isEmailVerified: true}),
\* then the controller sends 204
VerifyUpdateUser(p, up) ==
  /\ procs[p].pc = "ve_update"
  /\ LET id == procs[p].param IN
     /\ faults' = FaultsAfter(up)
     /\ IF ~up
        THEN /\ Proceed(p, verifyEmailCatch(procs[p], "StoreError"))
             /\ UNCHANGED <<users, consumed>>
        ELSE IF getUserById(id) = Null
        THEN /\ Proceed(p, verifyEmailCatch(procs[p], "User not found"))
             /\ UNCHANGED <<users, consumed>>
        ELSE /\ users' = updateEmailVerified(id)
             /\ consumed' = consumed \cup {procs[p].tok}
             /\ Proceed(p, [procs[p] EXCEPT !.pc = "done", !.res = NO_CONTENT])
  /\ UNCHANGED <<sessions, tokens, now, ticks, nextTok>>

\* authController.login -> authService.loginUserWithEmailAndPassword(email,
\* password): getUserByEmail and the comparison of the password
Login(p, email, password, up) ==
  /\ procs[p].pc = "idle"
  /\ LET user == getUserByEmail(email)
         pr == [Idle EXCEPT !.op = "login", !.email = email, !.password = password]
     IN /\ faults' = FaultsAfter(up)
        /\ IF ~up
           THEN Complete(p, [pr EXCEPT !.pc = "done", !.thrown = "StoreError",
                                       !.next = PlainError("StoreError")])
           ELSE IF ~credentialsOk(user, password)
           THEN Complete(p, [pr EXCEPT !.pc = "done",
                                       !.thrown = "Incorrect email or password",
                                       !.next = ApiError(UNAUTHORIZED,
                                                         "Incorrect email or password")])
           ELSE Continue(p, [pr EXCEPT !.pc = "li_createSession",
                                       !.param = CHOOSE u \in user : TRUE])
  /\ UNCHANGED <<sessions, tokens, users, now, ticks, nextTok, consumed>>

\* register lines 21-23, login lines 29-31: generateSessionToken,
\* createSession(token, user.id), then the response with the raw token
issueSession(p, status, up) ==
  LET token == generateSessionToken
      session == newSession(token, procs[p].param, defaultExpiresAt(now))
      pr == [procs[p] EXCEPT !.pc = "done", !.tok = token]
  IN /\ nextTok' = nextTok + 1
     /\ faults' = FaultsAfter(up)
     /\ IF ~up
        THEN /\ Complete(p, [pr EXCEPT !.thrown = "StoreError",
                                        !.next = PlainError("StoreError")])
             /\ UNCHANGED sessions
        ELSE IF sessionConflict(session)
        THEN /\ Complete(p, [pr EXCEPT !.thrown = "P2002",
                                        !.next = PlainError("P2002")])
             /\ UNCHANGED sessions
        ELSE /\ sessions' = sessionCreate(session)
             /\ Complete(p, [pr EXCEPT !.session = Some(session), !.res = status])
     /\ UNCHANGED <<tokens, users, now, ticks, consumed>>

\* login lines 29-31
LoginCreateSession(p, up) ==
  /\ procs[p].pc = "li_createSession"
  /\ issueSession(p, OK, up)

\* authController.register -> userService.createUser(name, email, password,
\* role), which refuses an email that is taken
Register(p, email, password, up) ==
  /\ procs[p].pc = "idle"
  /\ LET pr == [Idle EXCEPT !.op = "register", !.email = email, !.password = password]
     IN /\ faults' = FaultsAfter(up)
        /\ IF ~up
           THEN /\ Complete(p, [pr EXCEPT !.pc = "done", !.thrown = "StoreError",
                                           !.next = PlainError("StoreError")])
                /\ UNCHANGED users
           ELSE IF getUserByEmail(email) # Null
           THEN /\ Complete(p, [pr EXCEPT !.pc = "done",
                                           !.thrown = "Email already taken",
                                           !.next = ApiError(BAD_REQUEST,
                                                             "Email already taken")])
                /\ UNCHANGED users
           ELSE /\ users' = createUser(email, password, "USER")
                /\ Continue(p, [pr EXCEPT !.pc = "rg_createSession",
                                           !.param = NewUserId])
  /\ UNCHANGED <<sessions, tokens, now, ticks, nextTok, consumed>>

\* register lines 21-23
RegisterCreateSession(p, up) ==
  /\ procs[p].pc = "rg_createSession"
  /\ issueSession(p, CREATED, up)

\* userService.deleteUserById(id) for a user no session or token refers to
DeleteUser(id) ==
  /\ id \in DOMAIN users
  /\ \A s \in sessions : s.userId # id
  /\ \A k \in tokens : k.userId # id
  /\ users' = [u \in DOMAIN users \ {id} |-> users[u]]
  /\ last' = Idle
  /\ UNCHANGED <<sessions, tokens, now, ticks, nextTok, faults, procs, consumed>>

\* time passes
Tick(d) ==
  /\ ticks < MaxTicks
  /\ now' = now + d
  /\ ticks' = ticks + 1
  /\ last' = Idle
  /\ UNCHANGED <<sessions, tokens, users, nextTok, faults, procs, consumed>>

-----------------------------------------------------------------------------
(* Inputs *)

Deltas == {DAYS_15 - 1, DAYS_15}
FreeSlot(p) == procs[p].pc = "idle" /\ \A q \in Procs : q < p => procs[q].pc # "idle"
Issued == 1 .. (nextTok - 1)
Headers == {NoHeader, BogusToken} \cup Issued
RequiredRights == {{}, {"anyRight"}, {"getUsers", "manageUsers"}, {"getUsers", "anyRight"}}
Params == UserIds \cup {NoParam}
Emails == {"one@x", "admin@x", "nobody@x"}
TokenTypes == {"RESET_PASSWORD", "VERIFY_EMAIL"}
Expiries == {now - 1, now + MINUTES_10}
Presented == Issued \cup {BogusToken}
LoginEmails == {"one@x", "new@x"}
Passwords == {"password1", "Passwo1d@123"}

-----------------------------------------------------------------------------
(* Specifications *)

\* Concurrent requests of the holders of issued tokens: sessions issued with
\* the default expiry, validated by the auth middleware of routes without
\* required rights, and logged out, against a store that answers every call.
\* A new request is served by the first free slot (the slots are alike).
Next ==
  \/ \E p \in Procs, u \in UserIds :
       FreeSlot(p) /\ nextTok <= MaxTokens /\ CreateSession(p, u, FALSE, 0, TRUE)
  \/ \E p \in Procs, h \in Issued : FreeSlot(p) /\ AuthFind(p, h, {}, NoParam, TRUE)
  \/ \E p \in Procs : ValidateDelete(p, TRUE)
  \/ \E p \in Procs : ValidateUpdate(p, TRUE)
  \/ \E p \in Procs, h \in Issued : FreeSlot(p) /\ Logout(p, h, TRUE)
  \/ \E d \in Deltas : Tick(d)

Spec == Init /\ [][Next]_vars

\* Concurrent validations of sessions none of which reaches its expiry: the
\* clock only moves to instants at which every stored session, and every
\* session a validation in flight is about to write, is unexpired.
NextRenew ==
  \/ \E p \in Procs, u \in UserIds :
       FreeSlot(p) /\ nextTok <= MaxTokens /\ CreateSession(p, u, FALSE, 0, TRUE)
  \/ \E p \in Procs, h \in Issued : FreeSlot(p) /\ AuthFind(p, h, {}, NoParam, TRUE)
  \/ \E p \in Procs : ValidateUpdate(p, TRUE)
  \/ \E d \in Deltas :
       /\ \A x \in sessions : now + d < x.expiresAt
       /\ \A p \in Procs : \A x \in procs[p].session : now + d < x.expiresAt
       /\ Tick(d)

SpecRenew == Init /\ [][NextRenew]_vars

\* Concurrent validations of sessions left idle: a session is presented only
\* once 30 days have passed since it was issued, so none is ever renewed.
NextIdle ==
  \/ \E p \in Procs, u \in UserIds :
       FreeSlot(p) /\ nextTok <= MaxSeqTokens /\ CreateSession(p, u, FALSE, 0, TRUE)
  \/ \E p \in Procs, h \in Issued :
       /\ FreeSlot(p)
       /\ \A x \in sessions : x.id = sha256Hex(h) => now >= x.expiresAt
       /\ AuthFind(p, h, {}, NoParam, TRUE)
  \/ \E p \in Procs : ValidateDelete(p, TRUE)
  \/ \E d \in Deltas : Tick(d)

SpecIdle == Init /\ [][NextIdle]_vars

\* One request at a time: routes that declare required rights and carry a
\* userId parameter, called by the holders of fresh sessions; sessions are
\* also inserted for tokens that were issued before.
NextAuthz ==
  \/ \E u \in UserIds : nextTok <= MaxAuthzTokens /\ CreateSession(1, u, FALSE, 0, TRUE)
  \/ \E h \in Headers, r \in RequiredRights, param \in Params : AuthFind(1, h, r, param, TRUE)
  \/ \E h \in Headers : Logout(1, h, TRUE)
  \/ \E h \in Issued, u \in UserIds : CreateSessionWith(1, h, u, TRUE)

SpecAuthz == Init /\ [][NextAuthz]_vars

\* One request at a time, with any Authorization header or none; sessions
\* with the default expiry or one that is already past.
NextSeq ==
  \/ \E u \in UserIds :
       /\ nextTok <= MaxSeqTokens
       /\ \/ CreateSession(1, u, FALSE, 0, TRUE)
          \/ CreateSession(1, u, TRUE, now - 1, TRUE)
  \/ \E h \in Headers : AuthFind(1, h, {}, NoParam, TRUE)
  \/ ValidateDelete(1, TRUE)
  \/ ValidateUpdate(1, TRUE)
  \/ \E h \in Headers : Logout(1, h, TRUE)
  \/ \E d \in Deltas : Tick(d)

SpecSeq == Init /\ [][NextSeq]_vars

\* One request at a time: every operation that writes a token to the store.
NextStore ==
  \/ \E u \in UserIds : nextTok <= MaxSeqTokens /\ CreateSession(1, u, FALSE, 0, TRUE)
  \/ \E h \in Issued : AuthFind(1, h, {}, NoParam, TRUE)
  \/ ValidateDelete(1, TRUE)
  \/ ValidateUpdate(1, TRUE)
  \/ \E email \in Emails : nextTok <= MaxSeqTokens /\ ForgotPassword(1, email, TRUE)
  \/ \E u \in UserIds : nextTok <= MaxSeqTokens /\ SendVerificationEmail(1, u, TRUE)
  \/ \E d \in Deltas : Tick(d)

SpecStore == Init /\ [][NextStore]_vars

\* One request at a time against a store whose calls may fail.
NextFaults ==
  \/ \E u \in UserIds, up \in StoreUp :
       /\ nextTok <= MaxSeqTokens
       /\ \/ CreateSession(1, u, FALSE, 0, up)
          \/ CreateSession(1, u, TRUE, now - 1, up)
  \/ \E h \in Headers, up \in StoreUp : AuthFind(1, h, {}, NoParam, up)
  \/ \E up \in StoreUp : ValidateDelete(1, up)
  \/ \E up \in StoreUp : ValidateUpdate(1, up)
  \/ \E h \in Headers, up \in StoreUp : Logout(1, h, up)
  \/ \E d \in Deltas : Tick(d)

SpecFaults == Init /\ [][NextFaults]_vars

\* One request at a time: purpose tokens of either type, blacklisted or not,
\* expired or not, issued and presented for password reset and email
\* verification.
NextPurpose ==
  \/ \E u \in UserIds, e \in Expiries, type \in TokenTypes, b \in BOOLEAN :
       nextTok <= MaxPurposeTokens /\ SaveToken(1, u, e, type, b, TRUE)
  \/ \E email \in Emails : nextTok <= MaxPurposeTokens /\ ForgotPassword(1, email, TRUE)
  \/ \E t \in Presented : ResetPassword(1, t, TRUE)
  \/ ResetGetUser(1, TRUE)
  \/ ResetUpdateUser(1, TRUE)
  \/ ResetDeleteMany(1, TRUE)
  \/ \E t \in Presented : VerifyEmail(1, t, TRUE)
  \/ VerifyDeleteMany(1, TRUE)
  \/ VerifyUpdateUser(1, TRUE)

SpecPurpose == Init /\ [][NextPurpose]_vars

\* Concurrent requests presenting purpose tokens, against a store whose calls
\* may fail, while users without sessions and tokens may be deleted.
NextConsume ==
  \/ \E p \in Procs, type \in TokenTypes, b \in BOOLEAN, up \in StoreUp :
       /\ FreeSlot(p)
       /\ nextTok <= MaxConsumeTokens
       /\ SaveToken(p, "userOne", now + MINUTES_10, type, b, up)
  \/ \E p \in Procs, t \in Presented, up \in StoreUp : FreeSlot(p) /\ ResetPassword(p, t, up)
  \/ \E p \in Procs, up \in StoreUp : ResetGetUser(p, up)
  \/ \E p \in Procs, up \in StoreUp : ResetUpdateUser(p, up)
  \/ \E p \in Procs, up \in StoreUp : ResetDeleteMany(p, up)
  \/ \E p \in Procs, t \in Presented, up \in StoreUp : FreeSlot(p) /\ VerifyEmail(p, t, up)
  \/ \E p \in Procs, up \in StoreUp : VerifyDeleteMany(p, up)
  \/ \E p \in Procs, up \in StoreUp : VerifyUpdateUser(p, up)
  \/ DeleteUser("userOne")

SpecConsume == Init /\ [][NextConsume]_vars

\* One request at a time through the routes of the auth controller:
\* register, login, the auth middleware, logout, forgot-password,
\* reset-password, send-verification-email and verify-email. Time passes
\* between requests while a session is stored.
NextRoutes ==
  \/ \E email \in LoginEmails : nextTok <= MaxRouteTokens /\ Register(1, email, "Passwo1d@123", TRUE)
  \/ RegisterCreateSession(1, TRUE)
  \/ \E email \in LoginEmails, password \in Passwords :
       nextTok <= MaxRouteTokens /\ Login(1, email, password, TRUE)
  \/ LoginCreateSession(1, TRUE)
  \/ \E h \in Issued : AuthFind(1, h, {}, NoParam, TRUE)
  \/ ValidateDelete(1, TRUE)
  \/ ValidateUpdate(1, TRUE)
  \/ \E h \in Issued : Logout(1, h, TRUE)
  \/ nextTok <= MaxRouteTokens /\ ForgotPassword(1, "one@x", TRUE)
  \/ nextTok <= MaxRouteTokens /\ SendVerificationEmail(1, "userOne", TRUE)
  \/ \E t \in Issued : ResetPassword(1, t, TRUE)
  \/ ResetGetUser(1, TRUE)
  \/ ResetUpdateUser(1, TRUE)
  \/ ResetDeleteMany(1, TRUE)
  \/ \E t \in Issued : VerifyEmail(1, t, TRUE)
  \/ VerifyDeleteMany(1, TRUE)
  \/ VerifyUpdateUser(1, TRUE)
  \/ \E d \in Deltas : sessions # {} /\ procs[1].pc = "idle" /\ Tick(d)

SpecRoutes == Init /\ [][NextRoutes]_vars

-----------------------------------------------------------------------------
(* Properties *)

TypeOK ==
  /\ \A s \in sessions : s.id \in DigestBase .. (DigestBase + DigestSpace - 1) /\ s.userId \in DOMAIN users
  /\ \A s1, s2 \in sessions : s1.id = s2.id => s1 = s2
  /\ nextTok \in 1 .. BogusToken
  /\ faults \in 0 .. MaxFaults

AllHeaders == RawTokens \cup {NoHeader}

\* the id under which the store would hold the session of a presented token
HashOf(t) == sha256Hex(encode(t))

Unauthorized == [called |-> TRUE, statusCode |-> 401, message |-> "Please authenticate"]
Forbidden == [called |-> TRUE, statusCode |-> 403, message |-> "Forbidden"]
Allowed == [called |-> TRUE, statusCode |-> 0, message |-> ""]

\* this step is the start of the auth middleware on a request presenting t
AuthBegins(t) ==
  \/ last'.op = "auth" /\ last'.tok = t /\ procs' = procs
  \/ \E p \in Procs : /\ procs[p].pc = "idle"
                      /\ procs'[p].pc # "idle"
                      /\ procs'[p].op = "auth"
                      /\ procs'[p].tok = t

\* C1: round trip. When createSession(t, U) with the default expiry has just
\* completed and the next step is a validateSessionToken(t) (through the auth
\* middleware) at the same instant, that call returns a session and the user
\* whose id is U.
C1_RoundTrip ==
  [][(/\ last.op = "createSession"
      /\ last.thrown = "none"
      /\ \A s \in last.session : s.expiresAt = now + DAYS_30
      /\ AuthBegins(last.tok))
     => (/\ last'.op = "auth"
         /\ last'.session # Null
         /\ last'.user # Null
         /\ \A u \in last'.user : u.id = last.param)]_vars

C1_Witness ==
  /\ last.op = "auth"
  /\ last.found = "valid"
  /\ \E s \in last.session : s.expiresAt = now + DAYS_30 /\ \E u \in last.user : u.id = s.userId

\* C2: expiry enforcement. A validateSessionToken that starts on a token whose
\* stored session has expiresAt in the past goes on to delete the record, and
\* when that delete is done it returns the absent result, no record with the
\* id is left in the store, and the auth middleware passes 401 to next.
C2_ExpiryEnforcement ==
  [][/\ \A t \in AllHeaders :
          ((\E s \in sessions : s.id = HashOf(t) /\ s.expiresAt < now) /\ AuthBegins(t))
          => (last' = Idle /\ \E p \in Procs : procs'[p].pc = "delete" /\ procs'[p].tok = t)
     /\ \A p \in Procs :
          (procs[p].pc = "delete" /\ procs'[p] # procs[p])
          => (/\ last'.op = "auth"
              /\ last'.tok = procs[p].tok
              /\ last'.session = Null
              /\ last'.user = Null
              /\ last'.next = Unauthorized
              /\ \A s \in sessions' : s.id # HashOf(procs[p].tok))]_vars

C2_Witness ==
  /\ last.op = "auth"
  /\ last.found = "expired"
  /\ last.session = Null
  /\ last.next = Unauthorized
  /\ \A s \in sessions : s.id # HashOf(last.tok)

\* C3: sliding renewal. A validateSessionToken that starts on an unexpired
\* session with at most 15 days left goes on to write expiresAt = now + 30 days
\* (now being the time of validation) and, when the write is done, returns the
\* session with that expiry, which is then the stored one; with more than 15
\* days left it returns the stored session at once and writes nothing.
C3_SlidingRenewal ==
  [][/\ \A t \in AllHeaders : \A s \in sessions :
          (s.id = HashOf(t) /\ now < s.expiresAt /\ AuthBegins(t))
          => IF now >= s.expiresAt - DAYS_15
             THEN /\ sessions' = sessions
                  /\ \E p \in Procs :
                       /\ procs'[p].pc = "update"
                       /\ procs'[p].tok = t
                       /\ procs'[p].session = {[s EXCEPT !.expiresAt = now + DAYS_30]}
             ELSE /\ sessions' = sessions
                  /\ last'.op = "auth"
                  /\ last'.session = {s}
     /\ \A p \in Procs :
          (procs[p].pc = "update" /\ procs'[p].pc = "idle")
          => (/\ last'.op = "auth"
              /\ last'.session = procs[p].session
              /\ procs[p].session \subseteq sessions'
              /\ \A x \in sessions' : x \in sessions \/ x \in procs[p].session)]_vars

C3_Witness ==
  /\ last.op = "auth"
  /\ last.found = "renew"
  /\ last.next = Allowed
  /\ last.session # Null
  /\ last.session \subseteq sessions

\* C4: end-to-end revocation. A validateSessionToken that returns a session
\* returns the user the session was created for; a logout that completes
\* leaves no record for its token; a token without a record never gets one
\* again; and every validateSessionToken that starts on a token without a
\* record returns the absent result.
C4_Revocation ==
  [][/\ (last'.op = "auth" /\ last'.session # Null)
          => \A u \in last'.user : \E s \in sessions : s.id = HashOf(last'.tok) /\ s.userId = u.id
     /\ \A t \in Issued :
          /\ (last'.op = "logout" /\ last'.tok = t /\ last'.thrown = "none")
               => \A s \in sessions' : s.id # HashOf(t)
          /\ (\A s \in sessions : s.id # HashOf(t))
               => \A s \in sessions' : s.id # HashOf(t)
          /\ ((\A s \in sessions : s.id # HashOf(t)) /\ AuthBegins(t))
               => (/\ last'.op = "auth"
                   /\ last'.session = Null
                   /\ last'.user = Null
                   /\ last'.next = Unauthorized)]_vars

\* a token that was issued, has not reached its expiry and has no record:
\* it was logged out, and the validation that follows returned absent
C4_Witness ==
  /\ last.op = "auth"
  /\ last.tok \in Issued
  /\ last.found = "null"
  /\ last.session = Null
  /\ now < DAYS_30

\* C5: hash-only persistence. Every Session id and every token field of a
\* purpose token in the store is the digest of a raw token and is not itself a
\* raw token.
C5_HashOnly ==
  /\ \A s \in sessions : s.id \notin RawTokens /\ \E t \in RawTokens : s.id = sha256Hex(t)
  /\ \A k \in tokens : k.token \notin RawTokens /\ \E t \in RawTokens : k.token = sha256Hex(t)

C5_Witness ==
  /\ sessions # {}
  /\ tokens # {}

\* C6: authorization decision. For a request with a valid session and a
\* non-empty list of required rights, next is called without argument when
\* every required right is among the rights of the user's role or the userId
\* parameter is the user's id, and with 403 Forbidden otherwise.
C6_Authorization ==
  (last.op = "auth" /\ last.session # Null /\ last.rights # {})
  => \A u \in last.user :
       LET granted == IF u.role \in DOMAIN roleRights THEN roleRights[u.role] ELSE {}
           allowed == last.rights \subseteq granted \/ last.param = u.id
       IN IF allowed THEN last.next = Allowed ELSE last.next = Forbidden

\* a user whose role grants nothing, allowed on the route of their own id
C6_Witness ==
  /\ last.op = "auth"
  /\ last.rights = {"anyRight"}
  /\ last.next = Allowed
  /\ \E u \in last.user : u.role = "USER" /\ roleRights[u.role] = {} /\ last.param = u.id

\* C7: with an empty list of required rights every request with a valid
\* session is allowed, whatever the role and the userId parameter, and the
\* session's user is attached to the request.
C7_NoRightsRequired ==
  (last.op = "auth" /\ last.session # Null /\ last.rights = {})
  => (/\ last.next = Allowed
      /\ last.user # Null
      /\ last.reqUser = last.user
      /\ \A u \in last.user : \A s \in last.session : u.id = s.userId)

C7_Witness ==
  /\ last.op = "auth"
  /\ last.rights = {}
  /\ last.next = Allowed
  /\ last.param = "admin"
  /\ \E u \in last.reqUser : u.role = "USER"

\* C8: uniform authentication failure. A request without Authorization
\* header, one whose token matches no session and one whose session is expired
\* all end with the same call next(401 'Please authenticate'), and no user is
\* attached.
C8_UniformFailure ==
  (last.op = "auth" /\ (last.tok = NoHeader \/ last.found = "null" \/ last.found = "expired"))
  => (/\ last.next = Unauthorized
      /\ last.session = Null
      /\ last.user = Null
      /\ last.reqUser = Null)

C8_Witness ==
  /\ last.op = "auth"
  /\ last.found = "expired"
  /\ last.tok \in Issued
  /\ last.next = Unauthorized

\* C9: every request of the auth middleware in which validateSessionToken
\* raised an error has next called with a 401 error.
C9_LookupFailureIs401 ==
  \A p \in Procs :
    (procs[p].op = "auth" /\ procs[p].thrown # "none")
    => (procs[p].next.called /\ procs[p].next.statusCode = 401)

\* C10: a validateSessionToken that found no session, or an expired one,
\* does not raise.
C10_NeverRaises ==
  \A p \in Procs :
    (procs[p].op = "auth" /\ procs[p].found \in {"null", "expired"})
    => procs[p].thrown = "none"

ResetFailed == [called |-> TRUE, statusCode |-> 401, message |-> "Password reset failed"]
VerifyFailed == [called |-> TRUE, statusCode |-> 401, message |-> "Email verification failed"]
NotFound == [called |-> TRUE, statusCode |-> 404, message |-> "No users found with this email"]

\* C11: a logout (the store answering) never surfaces an error: whether or
\* not a session exists for the token, the controller answers 204 and passes
\* no error to next.
C11_LogoutIdempotent ==
  (last.op = "logout")
  => (~last.next.called /\ last.thrown = "none" /\ last.res = 204)

\* C12: single-use purpose token. When resetPassword has succeeded with token
\* t, no RESET_PASSWORD token of that user is left in the store, from then on
\* verifyToken(t, RESET_PASSWORD) finds nothing, and a later resetPassword
\* with t fails with 'Token not found' inside and 401 'Password reset failed'
\* outside.
C12_SingleUse ==
  [][/\ (last'.op = "resetPassword" /\ last'.res = 204)
          => \A k \in tokens' : ~(k.userId = last'.param /\ k.type = "RESET_PASSWORD")
     /\ \A t \in consumed' :
          \A k \in tokens' : ~(k.token = sha256Hex(t) /\ k.type = "RESET_PASSWORD")
     /\ (last'.op = "resetPassword" /\ last'.tok \in consumed)
          => (/\ last'.thrown = "Token not found"
              /\ last'.next = ResetFailed
              /\ last'.res = 0
              /\ UNCHANGED <<tokens, users>>)]_vars

\* a second resetPassword with a token that was consumed before
C12_Witness ==
  /\ last.op = "resetPassword"
  /\ last.tok \in consumed
  /\ last.next = ResetFailed
  /\ \E u \in DOMAIN users : isPasswordMatch("password@123", users[u].password)

\* C13: of the concurrent requests that present one purpose token at most one
\* succeeds: no consume request completes with success for a token with which
\* a consume request has succeeded before.
C13_AtMostOneConsume ==
  [][(last'.op \in {"resetPassword", "verifyEmail"} /\ last'.res = 204)
     => last'.tok \notin consumed]_vars

\* C14: blacklist isolation. No request holds a blacklisted record as the
\* result of verifyToken, and a resetPassword or verifyEmail whose token is
\* stored blacklisted ends with 401 and no response of success.
C14_BlacklistIsolation ==
  /\ \A p \in Procs : \A k \in procs[p].tokenData :
       procs[p].op \in {"resetPassword", "verifyEmail"} => ~k.blacklisted
  /\ \A k \in last.tokenData :
       last.op \in {"resetPassword", "verifyEmail"} => ~k.blacklisted
  /\ (/\ last.op \in {"resetPassword", "verifyEmail"}
      /\ \E k \in tokens : k.token = sha256Hex(last.tok) /\ k.blacklisted)
     => (/\ last.res = 0
         /\ last.thrown = "Token not found"
         /\ last.next = IF last.op = "resetPassword" THEN ResetFailed ELSE VerifyFailed)

\* a blacklisted RESET_PASSWORD token was presented for a password reset
C14_Witness ==
  /\ last.op = "resetPassword"
  /\ last.next = ResetFailed
  /\ \E k \in tokens : /\ k.token = sha256Hex(last.tok)
                       /\ k.type = "RESET_PASSWORD"
                       /\ k.blacklisted

\* C15: a verifyEmail whose token is stored, not blacklisted, of type
\* VERIFY_EMAIL and past its expires ends with 401 'Email verification failed'.
C15_ExpiredVerifyEmailIs401 ==
  (last.op = "verifyEmail" /\ last.found = "expired")
  => (last.next = VerifyFailed /\ last.res = 0)

C17_ResetUniformFailure ==
  (last.op = "resetPassword")
  => IF last.thrown = "none"
     THEN last.res = 204 /\ ~last.next.called
     ELSE last.res = 0 /\ last.next = ResetFailed

\* the owning user was gone when resetPassword looked it up
C17_Witness ==
  /\ last.op = "resetPassword"
  /\ last.thrown = "Error"
  /\ last.next = ResetFailed

\* C18: verifyEmail has one failure outcome. Every verifyEmail that does not
\* succeed, whether verifyToken, deleteMany or the user update failed, ends
\* with next(401 'Email verification failed') and no response sent.
C18_VerifyUniformFailure ==
  (last.op = "verifyEmail")
  => IF last.thrown = "none"
     THEN last.res = 204 /\ ~last.next.called
     ELSE last.res = 0 /\ last.next = VerifyFailed

\* the user update failed after the tokens had been deleted
C18_Witness ==
  /\ last.op = "verifyEmail"
  /\ last.thrown = "User not found"
  /\ last.next = VerifyFailed

\* C19: generateResetPasswordToken for an email of no user fails with 404
\* NotFound, generates no token and leaves the token store as it was.
C19_UnknownEmailNotFound ==
  [][(last'.op = "forgotPassword" /\ \A u \in DOMAIN users : users[u].email # last'.email)
     => (/\ last'.thrown = "NotFound"
         /\ last'.next = NotFound
         /\ last'.res = 0
         /\ tokens' = tokens
         /\ nextTok' = nextTok)]_vars

C19_Witness ==
  /\ last.op = "forgotPassword"
  /\ last.email = "nobody@x"
  /\ last.next = NotFound
  /\ tokens # {}

\* C20: a createSession whose derived id is the id of a stored session fails
\* with the conflict error P2002 and leaves the store, the existing record
\* included, as it was.
C20_InsertConflict ==
  [][(last'.op = "createSession" /\ \E s \in sessions : s.id = sha256Hex(last'.tok))
     => (/\ last'.thrown = "P2002"
         /\ last'.session = Null
         /\ sessions' = sessions)]_vars

\* the insert was refused and the record of the other user is still there
C20_Witness ==
  /\ last.op = "createSession"
  /\ last.thrown = "P2002"
  /\ \E s \in sessions : s.id = sha256Hex(last.tok) /\ s.userId # last.param

\* C21: concurrent renewals are benign. While no session expires and none is
\* revoked, no validateSessionToken raises; one that finds its session inside
\* the renewal window goes on to write now + 30 days; every one that
\* completes returns the session and its user and next is called without
\* argument; and the write of a renewal leaves its own expiresAt in the store.
C21_ConcurrentRenewal ==
  [][/\ \A p \in Procs : procs'[p].thrown = "none"
     /\ \A t \in Issued : \A s \in sessions :
          (s.id = HashOf(t) /\ now >= s.expiresAt - DAYS_15 /\ AuthBegins(t))
          => \E p \in Procs :
               /\ procs'[p].pc = "update"
               /\ procs'[p].session = {[s EXCEPT !.expiresAt = now + DAYS_30]}
     /\ (last'.op = "auth")
          => (/\ last'.session # Null
              /\ last'.next = Allowed
              /\ \A x \in last'.session : \A u \in last'.user : u.id = x.userId)
     /\ \A p \in Procs :
          (procs[p].pc = "update" /\ procs'[p] # procs[p])
          => (/\ last'.session = procs[p].session
              /\ procs[p].session \subseteq sessions'
              /\ \A x \in sessions' :
                   x \in procs[p].session \/ (x \in sessions /\ x.id # HashOf(procs[p].tok)))]_vars

\* one renewal has completed while another one, which read the session before
\* that write, is still to write its own expiry
C21_Witness ==
  /\ last.op = "auth"
  /\ last.found = "renew"
  /\ last.next = Allowed
  /\ \E p \in Procs : /\ procs[p].pc = "update"
                      /\ procs[p].tok = last.tok
                      /\ procs[p].session # last.session

\* C22: removal is terminal. A token that was issued and has no record never
\* gets a record again: the renewal write of a validate that read the record
\* before the removal raises and writes nothing, and a validate that starts
\* without the record returns the absent result.
C22_RemovalTerminal ==
  [][\A t \in Issued :
       (\A s \in sessions : s.id # HashOf(t))
       => (/\ \A s \in sessions' : s.id # HashOf(t)
           /\ \A p \in Procs :
                (procs[p].tok = t /\ procs[p].pc = "update" /\ procs'[p] # procs[p])
                => (/\ procs'[p].thrown = "P2025"
                    /\ procs'[p].session = Null
                    /\ ~procs'[p].next.called
                    /\ sessions' = sessions)
           /\ AuthBegins(t) => (last'.op = "auth" /\ last'.found = "null" /\ last'.session = Null))]_vars

\* a validate read the record, the record was removed, then its renewal ran
C22_Witness ==
  \E p \in Procs :
    /\ procs[p].found = "renew"
    /\ procs[p].thrown = "P2025"
    /\ procs[p].tok \in Issued
    /\ \A s \in sessions : s.id # HashOf(procs[p].tok)

\* C29: every invocation of the auth middleware calls next. A request in
\* state "pending" has no further step: its promise never settles, so no
\* invocation may ever get there.
C29_NextCalledOnce ==
  \A p \in Procs : procs[p].op = "auth" => procs[p].pc # "pending"

\* C30: boundary instants. A validateSessionToken that finds its session at
\* now = expiresAt goes on to delete it; at now = expiresAt - 15 days it goes
\* on to write expiresAt = now + 30 days; one minute before that it returns
\* the session as stored and writes nothing; and the delete, when done,
\* leaves no record and returns the absent result.
C30_BoundaryInstants ==
  [][/\ \A t \in AllHeaders : \A s \in sessions :
          (s.id = HashOf(t) /\ AuthBegins(t))
          => (/\ now = s.expiresAt
                   => (sessions' = sessions /\ \E p \in Procs : procs'[p].pc = "delete")
              /\ now = s.expiresAt - DAYS_15
                   => \E p \in Procs :
                        /\ procs'[p].pc = "update"
                        /\ \A x \in procs'[p].session : x.expiresAt = now + DAYS_30
              /\ now = s.expiresAt - DAYS_15 - 1
                   => (last'.op = "auth" /\ last'.session = {s} /\ sessions' = sessions))
     /\ \A p \in Procs :
          (procs[p].pc = "delete" /\ procs'[p] # procs[p])
          => (last'.session = Null /\ \A s \in sessions' : s.id # HashOf(procs[p].tok))]_vars

\* found with exactly 15 days left, about to be renewed
C30_Witness ==
  \E p \in Procs : \E s \in sessions :
    /\ procs[p].pc = "update"
    /\ s.id = HashOf(procs[p].tok)
    /\ now = s.expiresAt - DAYS_15
    /\ \A x \in procs[p].session : x.expiresAt = now + DAYS_30

\* C23: idle lifetime cap. No stored expiresAt is more than 30 days ahead,
\* and a validateSessionToken of a session that was issued 30 days or more
\* ago and not validated since returns the absent result: it does not raise,
\* and the middleware passes 401 to next.
C23_IdleLifetimeCap ==
  /\ \A s \in sessions : s.expiresAt <= now + DAYS_30
  /\ (last.op = "auth") => (last.session = Null /\ last.next = Unauthorized)
  /\ \A p \in Procs :
       (procs[p].op = "auth") => (procs[p].pc = "delete" /\ procs[p].thrown = "none")

\* C28: raw tokens are never logged. Nothing a request of the token
\* subsystem writes to the console is a raw token; at most digests appear.
C28_NoRawTokenLogged ==
  /\ last.logged \cap RawTokens = {}
  /\ \A p \in Procs : procs[p].logged \cap RawTokens = {}

\* C26: a successful consume deletes all and only the tokens of the consumed
\* purpose of the owning user. The deleteMany step of resetPassword leaves
\* exactly the tokens that are not RESET_PASSWORD tokens of the user, the
\* one of verifyEmail exactly those that are not VERIFY_EMAIL tokens of the
\* user; when either request has succeeded the user has no token of that
\* purpose left.
C26_ConsumeDeletesPurpose ==
  [][/\ \A p \in Procs :
          (procs[p].pc = "rp_deleteMany" /\ procs'[p] # procs[p])
          => tokens' = {k \in tokens : ~(k.userId = procs[p].param /\ k.type = "RESET_PASSWORD")}
     /\ \A p \in Procs :
          (procs[p].pc = "ve_deleteMany" /\ procs'[p] # procs[p])
          => tokens' = {k \in tokens : ~(k.userId = procs[p].param /\ k.type = "VERIFY_EMAIL")}
     /\ (last'.op = "resetPassword" /\ last'.res = NO_CONTENT)
        => ~ \E k \in tokens' : k.userId = last'.param /\ k.type = "RESET_PASSWORD"
     /\ (last'.op = "verifyEmail" /\ last'.res = NO_CONTENT)
        => ~ \E k \in tokens' : k.userId = last'.param /\ k.type = "VERIFY_EMAIL"]_vars

\* a password reset succeeded for a user who still has a VERIFY_EMAIL token
C26_Witness ==
  /\ last.op = "resetPassword"
  /\ last.res = NO_CONTENT
  /\ \E k \in tokens : k.userId = last.param /\ k.type = "VERIFY_EMAIL"

\* C27: supersession. Of two tokens of one purpose issued for the same user
\* by forgot-password or send-verification-email requests, the one issued
\* earlier no longer verifies once the later one is in the store.
C27_Supersession ==
  \A t1, t2 \in Issued : \A k1, k2 \in tokens :
    (/\ t1 < t2
     /\ k1.token = sha256Hex(t1)
     /\ k2.token = sha256Hex(t2)
     /\ k1.userId = k2.userId
     /\ k1.type = k2.type)
    => verifyToken(t1, k1.type, FALSE) = Null

\* the credentials presented belong to user u
Matches(u, email, password) ==
  /\ u \in DOMAIN users
  /\ users[u].email = email
  /\ users[u].password = <<"bcrypt", password>>

\* C24: session lifecycle closure. Whenever the set of session records
\* changes, the step is the end of a successful register or login that
\* added one record for the user who registered or logged in, or a renewal
\* in validateSessionToken that changed the expiresAt of the validated
\* record and nothing else, or the removal of one record by logout or by
\* expiry detection in validateSessionToken; forgot-password,
\* reset-password, send-verification-email and verify-email leave the
\* sessions as they are.
C24_LifecycleClosure ==
  [][(sessions' # sessions)
     => \/ /\ last'.op \in {"register", "login"}
           /\ last'.res = (IF last'.op = "register" THEN CREATED ELSE OK)
           /\ \E s \in sessions' \ sessions :
                /\ sessions' = sessions \cup {s}
                /\ \A x \in sessions : x.id # s.id
                /\ s.id = sha256Hex(last'.tok)
                /\ s.userId = last'.param
                /\ users'[s.userId].email = last'.email
        \/ /\ last'.op = "auth"
           /\ last'.found = "renew"
           /\ \E s \in sessions, r \in sessions' :
                /\ s.id = HashOf(last'.tok)
                /\ r.id = s.id /\ r.userId = s.userId /\ r.expiresAt # s.expiresAt
                /\ sessions' \ {r} = sessions \ {s}
        \/ /\ \/ last'.op = "logout" /\ last'.res = NO_CONTENT
              \/ last'.op = "auth" /\ last'.found = "expired"
           /\ \E s \in sessions :
                /\ s.id = HashOf(last'.tok)
                /\ sessions' = sessions \ {s}]_vars

\* a password reset succeeded for a user who holds a session
C24_Witness ==
  /\ last.op = "resetPassword"
  /\ last.res = NO_CONTENT
  /\ \E s \in sessions : s.userId = last.param

\* C25: login issues a session only after the credentials matched. A login
\* whose email belongs to no user or whose password does not match ends
\* with 401 "Incorrect email or password", response not sent, and the
\* sessions unchanged, from its first step on; a login whose credentials
\* match ends with one new session of that user stored under the digest of
\* the raw token the response returns.
C25_LoginAfterCredentials ==
  [][/\ (last'.op = "login")
        => IF \E u \in DOMAIN users : Matches(u, last'.email, last'.password)
           THEN /\ last'.res = OK
                /\ ~last'.next.called
                /\ last'.tok = nextTok
                /\ \E u \in DOMAIN users :
                     /\ Matches(u, last'.email, last'.password)
                     /\ sessions' = sessions \cup
                          {[id |-> sha256Hex(last'.tok), userId |-> u,
                            expiresAt |-> now + DAYS_30]}
                     /\ sessions' # sessions
           ELSE /\ last'.next = ApiError(401, "Incorrect email or password")
                /\ last'.res = 0
                /\ sessions' = sessions
                /\ nextTok' = nextTok
     /\ \A p \in Procs :
          (procs'[p].op = "login" /\ procs'[p] # procs[p])
          => /\ sessions' = sessions
             /\ \E u \in DOMAIN users : Matches(u, procs'[p].email, procs'[p].password)]_vars

\* a login with the email of a user and a password that is not theirs
\* was refused
C25_Witness ==
  /\ last.op = "login"
  /\ last.next = ApiError(401, "Incorrect email or password")
  /\ \E u \in DOMAIN users : users[u].email = last.email

\* C31: concurrent validates of one expired session. Every delete step of a
\* validateSessionToken that found its session expired ends the request with
\* the absent result, 401 passed to next and nothing raised, and leaves no
\* record of the session, also when another request removed it first.
C31_ConcurrentExpiry ==
  [][\A p \in Procs :
       (procs[p].pc = "delete" /\ procs'[p] # procs[p])
       => (/\ last'.op = "auth"
           /\ last'.tok = procs[p].tok
           /\ last'.thrown = "none"
           /\ last'.session = Null
           /\ last'.next = Unauthorized
           /\ \A s \in sessions' : s.id # HashOf(procs[p].tok))]_vars

\* C32: resetPassword reports failure only when the password was not
\* changed. A resetPassword that has written the new password (it is at the
\* final deleteMany) does not end with 'Password reset failed'.
C32_FailureMeansUnchanged ==
  [][\A p \in Procs :
       (procs[p].pc = "rp_deleteMany" /\ procs'[p] # procs[p])
       => last'.next # ResetFailed]_vars

\* C33: ordering in verifyEmail. A user's isEmailVerified becomes true only
\* in the update step of a verifyEmail whose token was verified; that step is
\* reached only through the deleteMany step, which leaves no VERIFY_EMAIL
\* token of the user, and the deleteMany step only by a request whose
\* verifyToken returned a record; a request whose verifyToken failed ends at
\* once with the users as they were; and a failure of the user update leaves
\* the tokens deleted.
C33_VerifyEmailOrdering ==
  [][/\ \A u \in DOMAIN users :
          (u \in DOMAIN users' /\ ~users[u].isEmailVerified /\ users'[u].isEmailVerified)
          => \E p \in Procs :
               /\ procs[p].op = "verifyEmail"
               /\ procs[p].pc = "ve_update"
               /\ procs[p].param = u
               /\ procs[p].tokenData # Null
               /\ procs'[p] # procs[p]
     /\ \A p \in Procs :
          (procs'[p].pc = "ve_update" /\ procs'[p] # procs[p])
          => (/\ procs[p].pc = "ve_deleteMany"
              /\ ~ \E k \in tokens' : k.userId = procs[p].param /\ k.type = "VERIFY_EMAIL")
     /\ \A p \in Procs :
          (procs'[p].pc = "ve_deleteMany" /\ procs'[p] # procs[p])
          => (/\ procs[p].pc = "idle"
              /\ procs'[p].tokenData # Null
              /\ procs'[p].tokenData = verifyToken(procs'[p].tok, "VERIFY_EMAIL", FALSE))
     /\ (last'.op = "verifyEmail" /\ last'.tokenData = Null)
          => (last'.next = VerifyFailed /\ users' = users)
     /\ \A p \in Procs :
          (procs[p].pc = "ve_update" /\ procs'[p] # procs[p] /\ last'.next = VerifyFailed)
          => (tokens' = tokens /\ users' = users /\ procs[p].tokenData \cap tokens' = {})]_vars

\* the user update of a verifyEmail failed after the token was verified and
\* deleted, and the user stays unverified
C33_Witness ==
  /\ last.op = "verifyEmail"
  /\ last.next = VerifyFailed
  /\ last.tokenData # Null
  /\ last.tokenData \cap tokens = {}
  /\ \A u \in DOMAIN users : ~users[u].isEmailVerified

\* C34: renewal changes the expiry attribute only. No step of a
\* validateSessionToken on token t changes a session record other than the
\* one stored under the digest of t, and after the step every stored record
\* has the id and the userId of a record stored before.
C34_RenewalFrame ==
  [][\A t \in AllHeaders :
       (\/ AuthBegins(t)
        \/ \E p \in Procs : /\ procs[p].op = "auth"
                            /\ procs[p].tok = t
                            /\ procs'[p] # procs[p])
       => (/\ \A s \in sessions : s.id # HashOf(t) => s \in sessions'
           /\ \A r \in sessions' : \E s \in sessions : s.id = r.id /\ s.userId = r.userId)]_vars

\* a session was renewed while another session was stored
C34_Witness ==
  /\ last.op = "auth"
  /\ last.found = "renew"
  /\ last.session # Null
  /\ \E s \in sessions : s.id # HashOf(last.tok)

\* C35: a successful validateSessionToken returns more than 15 days of
\* validity. The session a validate returns at once has an expiresAt greater
\* than now + 15 days and is the stored one; the session a validate goes on
\* to write has one too, and is what the validate returns and stores when
\* its write is done.
C35_MoreThan15Days ==
  [][/\ \A t \in AllHeaders :
          AuthBegins(t)
          => (/\ (last'.op = "auth" /\ last'.session # Null)
                   => \A x \in last'.session : x.expiresAt > now + DAYS_15 /\ x \in sessions'
              /\ \A p \in Procs :
                   (procs'[p].pc = "update" /\ procs'[p] # procs[p])
                   => \A x \in procs'[p].session : x.expiresAt > now + DAYS_15)
     /\ \A p \in Procs :
          (procs[p].pc = "update" /\ procs'[p] # procs[p] /\ last'.session # Null)
          => (last'.session = procs[p].session /\ last'.session \subseteq sessions')]_vars

\* a session with one minute more than 15 days left was returned as stored
C35_Witness ==
  /\ last.op = "auth"
  /\ last.found = "valid"
  /\ \E x \in last.session : x.expiresAt = now + DAYS_15 + 1

\* C36: invalidateSession removes exactly the session stored under the
\* digest of the presented token. A logout leaves every other record as it
\* was, and a validate that follows it with the token of another unexpired
\* session finds that session: it returns it or goes on to renew it.
C36_LogoutRemovesOne ==
  [][/\ (last'.op = "logout")
          => sessions' = {s \in sessions : s.id # HashOf(last'.tok)}
     /\ \A t \in Issued : \A s \in sessions :
          (/\ last.op = "logout"
           /\ last.tok # t
           /\ s.id = HashOf(t)
           /\ now < s.expiresAt
           /\ AuthBegins(t))
          => \/ /\ last'.op = "auth"
                /\ last'.session = {s}
                /\ last'.next = Allowed
             \/ \E p \in Procs :
                  /\ procs'[p].pc = "update"
                  /\ \A x \in procs'[p].session : x.id = s.id /\ x.userId = s.userId]_vars

\* a logout removed one session of userOne, the only user who has logged
\* in, while another, unexpired session of theirs stayed stored
C36_Witness ==
  /\ last.op = "logout"
  /\ last.res = NO_CONTENT
  /\ NewUserId \notin DOMAIN users
  /\ \E s \in sessions : now < s.expiresAt /\ s.userId = "userOne"

\* C37: a password reset leaves sessions untouched. No step of a
\* resetPassword changes the session records, and a validate that follows a
\* successful reset with the token of an unexpired session of that user
\* finds the session: it returns it or goes on to renew it.
C37_ResetKeepsSessions ==
  [][/\ (\/ last'.op = "resetPassword"
         \/ \E p \in Procs : procs'[p].op = "resetPassword" /\ procs'[p] # procs[p])
          => sessions' = sessions
     /\ \A t \in Issued : \A s \in sessions :
          (/\ last.op = "resetPassword"
           /\ last.res = NO_CONTENT
           /\ s.userId = last.param
           /\ s.id = HashOf(t)
           /\ now < s.expiresAt
           /\ AuthBegins(t))
          => \/ /\ last'.op = "auth"
                /\ last'.session = {s}
                /\ last'.next = Allowed
             \/ \E p \in Procs :
                  /\ procs'[p].pc = "update"
                  /\ \A x \in procs'[p].session : x.id = s.id /\ x.userId = s.userId]_vars

\* a password reset succeeded for a user who holds an unexpired session
C37_Witness ==
  /\ last.op = "resetPassword"
  /\ last.res = NO_CONTENT
  /\ \E s \in sessions : s.userId = last.param /\ now < s.expiresAt

\* C38: purpose isolation. verifyToken returns only records of the requested
\* type; the record a resetPassword goes on with is a RESET_PASSWORD token
\* and the one a verifyEmail goes on with a VERIFY_EMAIL token; and a
\* resetPassword (verifyEmail) whose token is stored under no RESET_PASSWORD
\* (VERIFY_EMAIL) record fails in its first step with 'Token not found'
\* inside and changes neither users nor tokens.
C38_PurposeIsolation ==
  [][/\ \A t \in Presented : \A type \in TokenTypes :
          \A k \in verifyToken(t, type, FALSE) : k.type = type /\ k.token = sha256Hex(t)
     /\ \A p \in Procs :
          (procs'[p].op = "resetPassword" /\ procs'[p] # procs[p])
          => \A k \in procs'[p].tokenData : k.type = "RESET_PASSWORD"
     /\ \A p \in Procs :
          (procs'[p].op = "verifyEmail" /\ procs'[p] # procs[p])
          => \A k \in procs'[p].tokenData : k.type = "VERIFY_EMAIL"
     /\ (/\ last'.op = "resetPassword"
         /\ procs' = procs
         /\ ~ \E k \in tokens : k.token = sha256Hex(last'.tok) /\ k.type = "RESET_PASSWORD")
          => (/\ last'.next = ResetFailed
              /\ last'.thrown = "Token not found"
              /\ users' = users
              /\ tokens' = tokens)
     /\ (/\ last'.op = "verifyEmail"
         /\ procs' = procs
         /\ ~ \E k \in tokens : k.token = sha256Hex(last'.tok) /\ k.type = "VERIFY_EMAIL")
          => (/\ last'.next = VerifyFailed
              /\ last'.thrown = "Token not found"
              /\ users' = users
              /\ tokens' = tokens)]_vars

\* a password reset was refused for a token that is stored, not blacklisted,
\* as a VERIFY_EMAIL token
C38_Witness ==
  /\ last.op = "resetPassword"
  /\ last.next = ResetFailed
  /\ \E k \in tokens : /\ k.token = sha256Hex(last.tok)
                       /\ k.type = "VERIFY_EMAIL"
                       /\ ~k.blacklisted

\* C39: session tokens and purpose tokens are not interchangeable. A
\* validate of an issued token under whose digest no session is stored,
\* whether a purpose token is stored under it or nothing at all, returns the
\* absent result and the auth middleware passes 401 to next; no token under
\* whose digest a session is stored verifies as a purpose token, and a
\* resetPassword or verifyEmail presenting it fails with 401 and changes no
\* user.
C39_NotInterchangeable ==
  [][/\ \A t \in Issued :
          (AuthBegins(t) /\ ~ \E s \in sessions : s.id = HashOf(t))
          => (/\ last'.op = "auth"
              /\ last'.session = Null
              /\ last'.reqUser = Null
              /\ last'.next = Unauthorized
              /\ sessions' = sessions)
     /\ \A t \in Issued :
          (\E s \in sessions : s.id = sha256Hex(t))
          => \A type \in TokenTypes : verifyToken(t, type, FALSE) = Null
     /\ (/\ last'.op \in {"resetPassword", "verifyEmail"}
         /\ procs' = procs
         /\ \E s \in sessions : s.id = sha256Hex(last'.tok))
          => (/\ last'.next.statusCode = 401
              /\ last'.tokenData = Null
              /\ users' = users)]_vars

\* the auth middleware refused a token that is stored as a purpose token
C39_Witness ==
  /\ last.op = "auth"
  /\ last.next = Unauthorized
  /\ \E k \in tokens : k.token = HashOf(last.tok)

====
